---- MODULE Spec2Model ----
(***************************************************************************)
(* Bytecode-equivalence verifier of smart-contract-verifier:               *)
(*   verifier/base_verifier.rs  (Verifier: verify, compare, the part walk, *)
(*                               constructor-argument extraction)          *)
(*   solidity/multi_part.rs     (the settings-metadata sweep)              *)
(* Bytes are naturals 0..255, byte strings are sequences; Rust's 0-based   *)
(* half-open ranges s[a..b] are written Slice(s, a, b).                    *)
(***************************************************************************)
EXTENDS Integers, Sequences, FiniteSets, TLC

VARIABLES
    \* ---- one call of Verifier::compare, taken step by step ----
    remote_creation,    \* self.remote_bytecode.creation_tx_input()
    contract,           \* the compiled artifact (abi, parse outcome, parts)
    contract_modified,  \* the artifact of the modified compilation
    cmpPc,              \* position inside compare
    i,                  \* cursor of compare_bytecode_parts over remote_raw
    partIdx,            \* 1-based index of the part the walk is at
    walked,             \* parts examined so far, with the cursor they were examined at
    cmpResult,          \* what compare returned (kind = "Pending" until it does)
    \* ---- one call of Verifier::verify ----
    output,             \* output.contracts: (path, name) -> artifact, or absent
    output_modified,    \* which paths / (path, name) keys output_modified has
    verifyPc,           \* position inside verify
    pathIdx,            \* 1-based index of the outer loop into the paths of output
    nameIdx,            \* 1-based index of the inner loop into the names of that path
    compared,           \* candidates handed to compare, in order
    errors,             \* the errors vector
    verifyResult,       \* what verify returned
    \* ---- one call of multi_part::verify (the sweep) ----
    request,            \* the VerificationRequest
    sweepPc,            \* position inside the sweep
    metadataIdx,        \* 1-based index into settings_metadata(version)
    attempts,           \* the settings handed to verifier.verify, in order
    cancelRequested,    \* the enclosing service signalled cancellation
    cancelledAt,        \* attempts made when it was signalled during a round (-1: never)
    rounds,             \* what the rounds that completed returned, in order
    sweepResult         \* what the sweep returned

compareVars == <<remote_creation, contract, contract_modified, cmpPc, i, partIdx, walked, cmpResult>>
verifyVars  == <<output, output_modified, verifyPc, pathIdx, nameIdx, compared, errors, verifyResult>>
sweepVars   == <<request, sweepPc, metadataIdx, attempts, cancelRequested, cancelledAt,
                rounds, sweepResult>>
vars        == <<compareVars, verifyVars, sweepVars>>

----------------------------------------------------------------------------
(* Bounds of the model *)

MaxMainLen == 2     \* longest Main part of a local bytecode
MaxPairs   == 1     \* most key/value pairs of a metadata map
MaxParts   == 3     \* most parts of a local bytecode
MaxArgsLen == 3     \* most bytes appended after the local creation code
WordSize   == 2     \* bytes of one ABI word (32 in the EVM ABI, scaled down)
MaxInputs  == 1     \* most constructor inputs
MaxPaths   == 2     \* most source files of a compiler output

----------------------------------------------------------------------------
(* Byte strings *)

\* Rust s[a..b] / s.slice(a..b): defined only when a <= b <= s.len()
InRange(s, a, b) == a <= b /\ b <= Len(s)
Slice(s, a, b) == SubSeq(s, a + 1, b)
SliceFrom(s, a) == SubSeq(s, a + 1, Len(s))

\* two bytes, big endian
BE2(n) == <<(n \div 256) % 256, n % 256>>

HexDigit == <<"0","1","2","3","4","5","6","7","8","9","a","b","c","d","e","f">>

RECURSIVE HexDigits(_)
HexDigits(bs) ==
    IF bs = <<>> THEN <<>>
    ELSE <<HexDigit[(Head(bs) \div 16) + 1], HexDigit[(Head(bs) % 16) + 1]>> \o HexDigits(Tail(bs))

\* DisplayBytes::to_string: "0x" and two lowercase hex digits per byte
DisplayBytes(bs) == <<"0", "x">> \o HexDigits(bs)

\* Option<T> is a sequence of length 0 (None) or 1 (Some)
None == <<>>
Some(x) == <<x>>

----------------------------------------------------------------------------
(* Metadata decoder (metadata::MetadataHash::from_cbor)                       *)
(* The blob is a CBOR map: one header byte MapHeader + n for n <= 23 pairs,  *)
(* then n pairs of a key byte and a value byte.                              *)

MapHeader == 160    \* 0xa0: CBOR major type 5 (map), count in the low bits
KeySolc == 115      \* the "solc" key
KeyIpfs == 105      \* the "ipfs" key

RECURSIVE SolcOf(_, _)
\* the byte string of the last "solc" pair among the first n pairs that follow the header
SolcOf(input, n) ==
    IF n = 0 THEN None
    ELSE IF input[2 * n] = KeySolc THEN Some(<<input[2 * n + 1]>>)
    ELSE SolcOf(input, n - 1)

\* MetadataHash::from_cbor(encoded) -> Result<(MetadataHash, usize), _>
\* reads one map from the start of the input, accepts unknown keys, detects truncation,
\* and reports how many bytes the map occupied; the 2-byte length suffix is not read
from_cbor(input) ==
    IF input = <<>> THEN [ok |-> FALSE, err |-> "end of input"]
    ELSE IF input[1] < MapHeader \/ input[1] > MapHeader + 23
        THEN [ok |-> FALSE, err |-> "not a map"]
    ELSE LET n == input[1] - MapHeader IN
         IF Len(input) < 1 + 2 * n THEN [ok |-> FALSE, err |-> "end of input"]
         ELSE [ok |-> TRUE, metadata |-> [solc |-> SolcOf(input, n)], len |-> 1 + 2 * n]

----------------------------------------------------------------------------
(* Bytecode model (bytecode::BytecodePart, bytecode::LocalBytecode)          *)

Main(raw) == [type |-> "Main", raw |-> raw]

\* the Metadata part a local parse makes of a well-formed blob: the decoded map,
\* the blob's length and the two length bytes that follow it
Metadata(blob) ==
    [type |-> "Metadata",
     raw |-> blob \o BE2(Len(blob)),
     metadata |-> from_cbor(blob).metadata,
     metadata_length_raw |-> BE2(Len(blob)),
     encoded_length |-> Len(blob)]

\* BytecodePart::size
size(part) ==
    IF part.type = "Main" THEN Len(part.raw) ELSE part.encoded_length + 2

RECURSIVE Concat(_)
\* the bytes of the parts in order: LocalBytecode::creation_tx_input
Concat(parts) ==
    IF parts = <<>> THEN <<>> ELSE Head(parts).raw \o Concat(Tail(parts))

RECURSIVE Offset(_, _)
\* the offset of part k in the local bytecode: the sizes of the parts before it
Offset(parts, k) ==
    IF k <= 1 THEN 0 ELSE Offset(parts, k - 1) + size(parts[k - 1])

----------------------------------------------------------------------------
(* Results: VerificationErrorKind and the success values                     *)

Mismatch(expected, found) == [expected |-> expected, found |-> found]

Continue == [kind |-> "Ok"]
Panic(msg) == [kind |-> "Panic", msg |-> msg]
InternalError(msg) == [kind |-> "InternalError", msg |-> msg]
AbstractContract == [kind |-> "AbstractContract"]
LibraryMissed == [kind |-> "LibraryMissed"]
MetadataParse(msg) == [kind |-> "MetadataParse", msg |-> msg]
InvalidConstructorArguments(bytes) == [kind |-> "InvalidConstructorArguments", args |-> bytes]
BytecodeLengthMismatch(part, raw) == [kind |-> "BytecodeLengthMismatch", part |-> part, raw |-> raw]
BytecodeMismatch(part, raw) == [kind |-> "BytecodeMismatch", part |-> part, raw |-> raw]
CompilerVersionMismatch(m) == [kind |-> "CompilerVersionMismatch", mismatch |-> m]

----------------------------------------------------------------------------
(* Verifier::compare_bytecode_parts                                          *)

\* mutant: the part is compared with all that is left of the remote input
MainArmToEnd(remote_raw, local_raw, at, part) ==
    IF part.raw # SliceFrom(remote_raw, at)
        THEN BytecodeMismatch(Mismatch(part.raw, SliceFrom(remote_raw, at)),
                              Mismatch(local_raw, remote_raw))
    ELSE Continue

\* mutant: the part is compared with the start of the remote input, not at the cursor
MainArmAtZero(remote_raw, local_raw, at, part) ==
    IF part.raw # Slice(remote_raw, 0, Len(part.raw))
        THEN BytecodeMismatch(Mismatch(part.raw, Slice(remote_raw, 0, Len(part.raw))),
                              Mismatch(local_raw, remote_raw))
    ELSE Continue

\* the Main arm of the match, at cursor at
MainArm(remote_raw, local_raw, at, part) ==
    IF ~InRange(remote_raw, at, at + Len(part.raw)) THEN Panic("range end index out of range")
    ELSE IF part.raw # Slice(remote_raw, at, at + Len(part.raw))
        THEN BytecodeMismatch(Mismatch(part.raw, Slice(remote_raw, at, at + Len(part.raw))),
                              Mismatch(local_raw, remote_raw))
    ELSE Continue

\* the length-suffix test of the Metadata arm
LengthSuffixDiffers(remote_raw, start_index, part) ==
    Slice(remote_raw, start_index, start_index + 2) # part.metadata_length_raw

\* mutant: the two sides of the reported mismatch are exchanged
SolcArmSwapped(part, remote_metadata) ==
    IF part.metadata.solc # remote_metadata.solc
        THEN CompilerVersionMismatch(
                 Mismatch(IF remote_metadata.solc = None THEN None
                          ELSE Some(DisplayBytes(remote_metadata.solc[1])),
                          IF part.metadata.solc = None THEN None
                          ELSE Some(DisplayBytes(part.metadata.solc[1]))))
    ELSE Continue

\* the solc comparison of the Metadata arm
SolcArm(part, remote_metadata) ==
    IF part.metadata.solc # remote_metadata.solc
        THEN CompilerVersionMismatch(
                 Mismatch(IF part.metadata.solc = None THEN None
                          ELSE Some(DisplayBytes(part.metadata.solc[1])),
                          IF remote_metadata.solc = None THEN None
                          ELSE Some(DisplayBytes(remote_metadata.solc[1]))))
    ELSE Continue

\* the Metadata arm of the match, at cursor at
MetadataArm(remote_raw, at, part) ==
    IF ~InRange(remote_raw, at, Len(remote_raw)) THEN Panic("range start index out of range")
    ELSE LET decoded == from_cbor(SliceFrom(remote_raw, at)) IN
         IF ~decoded.ok THEN MetadataParse(decoded.err)
         ELSE LET start_index == at + decoded.len IN
              IF ~InRange(remote_raw, start_index, start_index + 2)
                  THEN Panic("range end index out of range")
              ELSE IF LengthSuffixDiffers(remote_raw, start_index, part)
                  THEN MetadataParse("metadata length mismatch")
              ELSE SolcArm(part, decoded.metadata)

\* one iteration of `for part in local_parts`, before `i += part.size()`
PartStep(remote_raw, local_raw, at, part) ==
    IF part.type = "Main" THEN MainArm(remote_raw, local_raw, at, part)
    ELSE MetadataArm(remote_raw, at, part)

\* mutant: the cursor skips the metadata map but not its two length bytes
AdvanceNoSuffix(at, part) ==
    at + (IF part.type = "Main" THEN Len(part.raw) ELSE part.encoded_length)

\* the cursor after a part that passed
Advance(at, part) == at + size(part)

RECURSIVE WalkFrom(_, _, _, _, _)
WalkFrom(remote_raw, local_raw, local_parts, k, at) ==
    IF k > Len(local_parts) THEN Continue
    ELSE LET r == PartStep(remote_raw, local_raw, at, local_parts[k]) IN
         IF r.kind # "Ok" THEN r
         ELSE WalkFrom(remote_raw, local_raw, local_parts, k + 1, Advance(at, local_parts[k]))

compare_bytecode_parts(remote_raw, local_raw, local_parts) ==
    IF ~(Len(remote_raw) >= Len(local_raw)) THEN Panic("Local bytecode is greater than remote")
    ELSE WalkFrom(remote_raw, local_raw, local_parts, 1, 0)

----------------------------------------------------------------------------
(* Verifier::compare_creation_tx_inputs                                      *)

\* mutant: a remote input of the local length is rejected too
RemoteNotLonger(remote_raw, local_raw) == Len(remote_raw) <= Len(local_raw)

\* the length test that guards the walk
RemoteShorter(remote_raw, local_raw) == Len(remote_raw) < Len(local_raw)

LengthError(remote_raw, local_raw) ==
    BytecodeLengthMismatch(Mismatch(Len(local_raw), Len(remote_raw)),
                           Mismatch(local_raw, remote_raw))

compare_creation_tx_inputs(remote_raw, local) ==
    IF RemoteShorter(remote_raw, local.creation_tx_input)
        THEN LengthError(remote_raw, local.creation_tx_input)
    ELSE compare_bytecode_parts(remote_raw, local.creation_tx_input, local.creation_tx_input_parts)

----------------------------------------------------------------------------
(* Verifier::extract_constructor_args, Verifier::parse_constructor_args      *)

\* ethabi::decode of `inputs` static one-word parameters: every parameter needs
\* a whole word; bytes after the last word are not looked at
parse_constructor_args(encoded_args, abi_constructor) ==
    IF Len(encoded_args) >= WordSize * abi_constructor.inputs
        THEN [kind |-> "Ok"]
    ELSE InvalidConstructorArguments(encoded_args)

\* mutant: any constructor counts as expecting arguments, also one without inputs
expects_constructor_args_any(abi_constructor) == abi_constructor # None

\* abi_constructor.map(|input| input.inputs.len()).unwrap_or(0) > 0
expects_constructor_args(abi_constructor) ==
    (IF abi_constructor = None THEN 0 ELSE abi_constructor[1].inputs) > 0

\* Ok(args) is [kind |-> "Ok", constructor_args |-> Option<Bytes>]
extract_constructor_args(remote_raw, local_raw, abi_constructor) ==
    IF ~InRange(remote_raw, Len(local_raw), Len(remote_raw)) THEN Panic("range start out of bounds")
    ELSE LET encoded == SliceFrom(remote_raw, Len(local_raw))
             encoded_constructor_args == IF encoded = <<>> THEN None ELSE Some(encoded)
             expects == expects_constructor_args(abi_constructor)
         IN  IF encoded_constructor_args = None /\ expects
                 THEN InvalidConstructorArguments(<<>>)
             ELSE IF encoded_constructor_args # None /\ ~expects
                 THEN InvalidConstructorArguments(encoded)
             ELSE IF encoded_constructor_args = None
                 THEN [kind |-> "Ok", constructor_args |-> None]
             ELSE LET parsed == parse_constructor_args(encoded, abi_constructor[1]) IN
                  IF parsed.kind # "Ok" THEN parsed
                  ELSE [kind |-> "Ok", constructor_args |-> Some(encoded)]

----------------------------------------------------------------------------
(* Verifier::compare                                                         *)

\* Bytecode::try_from(contract): the artifact carries the outcome of its parse
ParseErrorKind(init) ==
    IF init \in {"EmptyCreationTxInput", "EmptyDeployedBytecode"} THEN AbstractContract
    ELSE LibraryMissed

\* mutant: the modified contract's parse failure is mapped like the main contract's
ModifiedParseErrorAsMain(init) == ParseErrorKind(init)

\* the map_err of Bytecode::try_from(contract_modified)
ModifiedParseError(init) == InternalError(<<"modified contract: ", init>>)

\* LocalBytecode::new(bytecode, bytecode_modified)
LocalBytecode(c, cm) ==
    [creation_tx_input |-> Concat(c.parts), creation_tx_input_parts |-> c.parts]

compare(remote_raw, c, cm) ==
    IF c.abi = None THEN InternalError("missing abi")
    ELSE IF c.init # "Ok" THEN ParseErrorKind(c.init)
    ELSE IF cm.init # "Ok" THEN ModifiedParseError(cm.init)
    ELSE LET local == LocalBytecode(c, cm)
             r == compare_creation_tx_inputs(remote_raw, local)
         IN  IF r.kind # "Ok" THEN r
             ELSE LET a == extract_constructor_args(remote_raw, local.creation_tx_input,
                                                    c.abi[1].constructor)
                  IN  IF a.kind # "Ok" THEN a
                      ELSE [kind |-> "Ok", abi |-> c.abi[1], constructor_args |-> a.constructor_args]

----------------------------------------------------------------------------
(* Inputs of one comparison: compiled artifacts and remote creation inputs   *)

FirstOpcode == 96   \* 0x60, the byte the creation code of the source's tests starts with

\* n bytes of executable code, all different
CodeSeq(n) == [k \in 1..n |-> FirstOpcode + k - 1]
MainRaws == {CodeSeq(n) : n \in 1..MaxMainLen}

\* key/value pairs of a metadata map: solc 0.8.14, an ipfs hash
Pairs == {<<KeySolc, 14>>, <<KeyIpfs, 18>>}

RECURSIVE PairSeqs(_)
PairSeqs(n) ==
    IF n = 0 THEN {<<>>} ELSE {p \o rest : p \in Pairs, rest \in PairSeqs(n - 1)}

\* well-formed CBOR maps of up to MaxPairs pairs
Blobs == UNION {{<<MapHeader + n>> \o ps : ps \in PairSeqs(n)} : n \in 0..MaxPairs}

RECURSIVE PartsOfLen(_)
\* Main and Metadata parts in alternation, a Main part first
PartsOfLen(n) ==
    IF n = 0 THEN {<<>>}
    ELSE {Append(ps, IF n % 2 = 1 THEN Main(raw) ELSE Metadata(blob)) :
              ps \in PartsOfLen(n - 1), raw \in MainRaws, blob \in Blobs}

LocalParts == UNION {PartsOfLen(n) : n \in 1..MaxParts}

\* ethabi::Contract: its constructor, if any, and the number of its inputs
Abis == {Some([constructor |-> None])}
        \cup {Some([constructor |-> Some([inputs |-> n])]) : n \in 0..MaxInputs}

InitErrors == {"EmptyCreationTxInput", "EmptyDeployedBytecode",
               "InvalidCreationTxInput", "InvalidDeployedBytecode"}

Artifact(abi, init, parts) == [abi |-> abi, init |-> init, parts |-> parts]

\* bytes appended after the creation code
ArgBytes == {0, 255}
RECURSIVE ByteSeqs(_, _)
ByteSeqs(bytes, n) ==
    IF n = 0 THEN {<<>>} ELSE {<<b>> \o rest : b \in bytes, rest \in ByteSeqs(bytes, n - 1)}
Extras == UNION {ByteSeqs(ArgBytes, n) : n \in 0..MaxArgsLen}

\* values a single byte of the remote input is changed to
MutBytes == {0, 1, 3, 13, 14, FirstOpcode, MapHeader, MapHeader + 1, KeySolc}

Replace(s, p, b) == [s EXCEPT ![p] = b]

\* the metadata region of part k replaced by another map, the local length bytes
\* and zero padding, cut to the size of the region
Splice(parts, k, blob) ==
    LET raw == Concat(parts)
        off == Offset(parts, k)
        sz == size(parts[k])
        filled == blob \o parts[k].metadata_length_raw \o [n \in 1..sz |-> 0]
    IN  Slice(raw, 0, off) \o SubSeq(filled, 1, sz) \o SliceFrom(raw, off + sz)

\* remote creation inputs: the local bytes with bytes appended
Appendings(parts) == {Concat(parts) \o extra : extra \in Extras}

\* remote creation inputs: the local bytes with one byte changed, cut short, or with
\* a metadata region rewritten
Damaged(parts) ==
    LET raw == Concat(parts) IN
    {Replace(raw, p, b) \o extra : p \in 1..Len(raw), b \in MutBytes,
                                   extra \in {<<>>, CodeSeq(WordSize)}}
    \cup {SubSeq(raw, 1, n) : n \in 1..(Len(raw) - 1)}
    \cup {Splice(parts, k, blob) \o extra :
              k \in {j \in 1..Len(parts) : parts[j].type = "Metadata"}, blob \in Blobs,
              extra \in {<<>>, CodeSeq(WordSize)}}

----------------------------------------------------------------------------
(* SpecCompare: Verifier::compare, one step per statement                    *)

verifyIdle == /\ output = <<>> /\ output_modified = <<>> /\ verifyPc = "idle" /\ pathIdx = 0 /\ nameIdx = 0
              /\ compared = <<>> /\ errors = <<>> /\ verifyResult = [kind |-> "Pending"]
sweepIdle == /\ request = <<>> /\ sweepPc = "idle" /\ metadataIdx = 0 /\ attempts = <<>>
             /\ cancelRequested = FALSE /\ cancelledAt = -1 /\ rounds = <<>>
             /\ sweepResult = [kind |-> "Pending"]
compareIdle == /\ remote_creation = <<>> /\ contract = <<>> /\ contract_modified = <<>>
               /\ cmpPc = "idle" /\ i = 0 /\ partIdx = 0 /\ walked = <<>>
               /\ cmpResult = [kind |-> "Pending"]

InitCompare ==
    /\ \/ \* both artifacts parse, the remote input is the local one and appended bytes
          /\ contract \in {Artifact(abi, "Ok", parts) : abi \in Abis, parts \in LocalParts}
          /\ contract_modified = Artifact(contract.abi, "Ok", contract.parts)
          /\ remote_creation \in Appendings(contract.parts)
       \/ \* both artifacts parse, the remote input differs from the local one
          /\ contract \in {Artifact(Some([constructor |-> None]), "Ok", parts) :
                               parts \in LocalParts}
          /\ contract_modified = Artifact(contract.abi, "Ok", contract.parts)
          /\ remote_creation \in Damaged(contract.parts)
       \/ \* the artifact has no abi
          /\ contract \in {Artifact(None, init, <<Main(CodeSeq(1))>>) : init \in InitErrors \cup {"Ok"}}
          /\ contract_modified = Artifact(None, "Ok", contract.parts)
          /\ remote_creation = CodeSeq(1)
       \/ \* one or both artifacts fail to parse
          /\ contract \in {Artifact(abi, init, <<Main(CodeSeq(1))>>) :
                               abi \in Abis, init \in InitErrors \cup {"Ok"}}
          /\ contract_modified \in {Artifact(contract.abi, init, contract.parts) :
                                        init \in InitErrors \cup {"Ok"}}
          /\ remote_creation \in {CodeSeq(1), CodeSeq(2)}
    /\ cmpPc = "abi"
    /\ i = 0
    /\ partIdx = 0
    /\ walked = <<>>
    /\ cmpResult = [kind |-> "Pending"]
    /\ verifyIdle
    /\ sweepIdle

Return(r) == /\ cmpResult' = r
             /\ cmpPc' = "done"

local_bytecode == LocalBytecode(contract, contract_modified)

\* contract.get_abi().ok_or_else(...)?
GetAbi ==
    /\ cmpPc = "abi"
    /\ IF contract.abi = None
           THEN Return(InternalError("missing abi"))
           ELSE cmpPc' = "parse" /\ UNCHANGED cmpResult
    /\ UNCHANGED <<remote_creation, contract, contract_modified, i, partIdx, walked>>
    /\ UNCHANGED <<verifyVars, sweepVars>>

\* Bytecode::try_from(contract), Bytecode::try_from(contract_modified), LocalBytecode::new
ParseArtifacts ==
    /\ cmpPc = "parse"
    /\ IF contract.init # "Ok" THEN Return(ParseErrorKind(contract.init))
       ELSE IF contract_modified.init # "Ok" THEN Return(ModifiedParseError(contract_modified.init))
       ELSE cmpPc' = "length" /\ UNCHANGED cmpResult
    /\ UNCHANGED <<remote_creation, contract, contract_modified, i, partIdx, walked>>
    /\ UNCHANGED <<verifyVars, sweepVars>>

\* compare_creation_tx_inputs up to its call of compare_bytecode_parts
CheckLength ==
    /\ cmpPc = "length"
    /\ IF RemoteShorter(remote_creation, local_bytecode.creation_tx_input)
           THEN Return(LengthError(remote_creation, local_bytecode.creation_tx_input))
           ELSE cmpPc' = "enter" /\ UNCHANGED cmpResult
    /\ UNCHANGED <<remote_creation, contract, contract_modified, i, partIdx, walked>>
    /\ UNCHANGED <<verifyVars, sweepVars>>

\* compare_bytecode_parts: the assert and `let mut i = 0usize`
EnterWalk ==
    /\ cmpPc = "enter"
    /\ IF ~(Len(remote_creation) >= Len(local_bytecode.creation_tx_input))
           THEN Return(Panic("Local bytecode is greater than remote"))
                /\ UNCHANGED <<i, partIdx>>
           ELSE cmpPc' = "walk" /\ i' = 0 /\ partIdx' = 1 /\ UNCHANGED cmpResult
    /\ UNCHANGED <<remote_creation, contract, contract_modified, walked>>
    /\ UNCHANGED <<verifyVars, sweepVars>>

\* one iteration of the loop over local_parts
WalkPart(type) ==
    /\ cmpPc = "walk"
    /\ partIdx <= Len(local_bytecode.creation_tx_input_parts)
    /\ LET part == local_bytecode.creation_tx_input_parts[partIdx]
           r == PartStep(remote_creation, local_bytecode.creation_tx_input, i, part)
       IN  /\ part.type = type
           /\ walked' = Append(walked, [part |-> partIdx, at |-> i])
           /\ IF r.kind # "Ok"
                  THEN Return(r) /\ UNCHANGED <<i, partIdx>>
                  ELSE /\ i' = Advance(i, part)
                       /\ partIdx' = partIdx + 1
                       /\ UNCHANGED <<cmpPc, cmpResult>>
    /\ UNCHANGED <<remote_creation, contract, contract_modified>>
    /\ UNCHANGED <<verifyVars, sweepVars>>

WalkMain == WalkPart("Main")
WalkMetadata == WalkPart("Metadata")

\* the loop is over: Ok(()) to compare_creation_tx_inputs and on to compare
WalkDone ==
    /\ cmpPc = "walk"
    /\ partIdx > Len(local_bytecode.creation_tx_input_parts)
    /\ cmpPc' = "args"
    /\ UNCHANGED <<remote_creation, contract, contract_modified, i, partIdx, walked, cmpResult>>
    /\ UNCHANGED <<verifyVars, sweepVars>>

\* extract_constructor_args and the Ok((abi, constructor_args)) of compare
ExtractArgs ==
    /\ cmpPc = "args"
    /\ LET a == extract_constructor_args(remote_creation, local_bytecode.creation_tx_input,
                                         contract.abi[1].constructor)
       IN  IF a.kind # "Ok" THEN Return(a)
           ELSE Return([kind |-> "Ok", abi |-> contract.abi[1],
                        constructor_args |-> a.constructor_args])
    /\ UNCHANGED <<remote_creation, contract, contract_modified, i, partIdx, walked>>
    /\ UNCHANGED <<verifyVars, sweepVars>>

NextCompare ==
    \/ GetAbi
    \/ ParseArtifacts
    \/ CheckLength
    \/ EnterWalk
    \/ WalkMain
    \/ WalkMetadata
    \/ WalkDone
    \/ ExtractArgs

SpecCompare == InitCompare /\ [][NextCompare]_vars

\* the step-by-step run returns what the function returns
StepwiseAgrees ==
    cmpPc = "done" => cmpResult = compare(remote_creation, contract, contract_modified)

----------------------------------------------------------------------------
(* Properties of one comparison (SpecCompare)                                *)

\* both artifacts parsed and the abi was found: compare reaches the length test
Parsed == /\ contract.abi # None
          /\ contract.init = "Ok"
          /\ contract_modified.init = "Ok"

local_raw == Concat(contract.parts)

\* the bytes of the remote input after the local length, and whether the
\* constructor declares an input
Encoded == SliceFrom(remote_creation, Len(local_raw))
Expects == /\ contract.abi[1].constructor # None
           /\ contract.abi[1].constructor[1].inputs >= 1

\* the appended bytes are an ABI encoding of the constructor's parameters
Decodable == Len(Encoded) >= WordSize * contract.abi[1].constructor[1].inputs

\* the outcome table of extract_constructor_args
ArgsTable ==
    IF Encoded = <<>> /\ ~Expects THEN [kind |-> "Ok", constructor_args |-> None]
    ELSE IF Encoded = <<>> /\ Expects THEN InvalidConstructorArguments(<<>>)
    ELSE IF ~Expects THEN InvalidConstructorArguments(Encoded)
    ELSE IF ~Decodable THEN InvalidConstructorArguments(Encoded)
    ELSE [kind |-> "Ok", constructor_args |-> Some(Encoded)]

\* C2: whenever extract_constructor_args runs, with encoded = remote_raw[len(local_raw)..]
\* and expects = (the constructor has an input), it returns none for (empty, false),
\* InvalidConstructorArguments(empty) for (empty, true), InvalidConstructorArguments(encoded)
\* for (present, false) and for (present, true) when the ABI decoding fails, and
\* otherwise the bytes `encoded` themselves.
C2_ExtractTable ==
    [][cmpPc = "args" =>
           /\ cmpResult'.kind = ArgsTable.kind
           /\ cmpResult'.kind = "Ok" => cmpResult'.constructor_args = ArgsTable.constructor_args
           /\ cmpResult'.kind # "Ok" => cmpResult' = ArgsTable]_vars

\* extraction returned appended bytes that decode, unchanged
C2_Witness ==
    /\ cmpPc = "done"
    /\ cmpResult.kind = "Ok"
    /\ cmpResult.constructor_args # None
    /\ Len(cmpResult.constructor_args[1]) > WordSize
    /\ Len(contract.parts) = 1

\* C5 as stated: a parsed artifact compared against its own creation bytecode
\* always succeeds with constructor_args = none.
C5_Original ==
    (/\ cmpPc = "done"
     /\ Parsed
     /\ remote_creation = local_raw)
    => (cmpResult.kind = "Ok" /\ cmpResult.constructor_args = None)

\* C5 amended: a parsed artifact compared against its own creation bytecode succeeds
\* with constructor_args = none when its constructor declares no input; when the
\* constructor declares an input the comparison ends in
\* InvalidConstructorArguments(empty).
C5_Idempotent ==
    (/\ cmpPc = "done"
     /\ Parsed
     /\ remote_creation = local_raw)
    => IF Expects THEN cmpResult = InvalidConstructorArguments(<<>>)
       ELSE cmpResult.kind = "Ok" /\ cmpResult.constructor_args = None

\* a bytecode with two metadata parts, compared against itself, succeeded
C5_Witness ==
    /\ cmpPc = "done"
    /\ Parsed
    /\ remote_creation = local_raw
    /\ Len(contract.parts) >= 2
    /\ contract.parts[2].metadata.solc # None
    /\ cmpResult.kind = "Ok"
    /\ cmpResult.constructor_args = None

\* the remote input is the local creation bytecode followed by at least one byte
Appended == /\ Len(remote_creation) > Len(local_raw)
            /\ Slice(remote_creation, 0, Len(local_raw)) = local_raw

\* C6: when the remote creation input is the local creation bytecode followed by a
\* non-empty byte string, the comparison never yields BytecodeMismatch; it yields
\* InvalidConstructorArguments when the constructor has no inputs, and a success that
\* carries the appended bytes when they decode as the constructor's parameters.
C6_AppendInvariance ==
    (cmpPc = "done" /\ Parsed /\ Appended)
    => /\ cmpResult.kind # "BytecodeMismatch"
       /\ ~Expects => cmpResult = InvalidConstructorArguments(Encoded)
       /\ (Expects /\ Decodable) =>
              (cmpResult.kind = "Ok" /\ cmpResult.constructor_args = Some(Encoded))

\* bytes were appended to a bytecode that ends in a Main part after a metadata part,
\* and the constructor has no inputs
C6_Witness ==
    /\ cmpPc = "done"
    /\ Parsed
    /\ Appended
    /\ Len(contract.parts) = 3
    /\ ~Expects
    /\ cmpResult.kind = "InvalidConstructorArguments"
    /\ cmpResult.args = Encoded

\* C7: compare_creation_tx_inputs fails with BytecodeLengthMismatch exactly when the
\* remote creation input is shorter than the local one; the error's part is
\* Mismatch{expected: len(local), found: len(remote)} and no part was compared.
C7_LengthMismatch ==
    /\ (cmpPc = "done" /\ Parsed) =>
           (cmpResult.kind = "BytecodeLengthMismatch" <=> Len(remote_creation) < Len(local_raw))
    /\ cmpResult.kind = "BytecodeLengthMismatch" =>
           /\ cmpResult.part = Mismatch(Len(local_raw), Len(remote_creation))
           /\ walked = <<>>
    /\ (Parsed /\ Len(remote_creation) < Len(local_raw)) => walked = <<>>

\* a remote input one byte shorter than the local one was rejected
C7_Witness ==
    /\ cmpPc = "done"
    /\ Len(remote_creation) = Len(local_raw) - 1
    /\ cmpResult.kind = "BytecodeLengthMismatch"
    /\ cmpResult.part.found = cmpResult.part.expected - 1

\* the parts the walk has examined and let pass
Passed(n) == partIdx > walked[n].part

\* C9: the cursor a part is examined at is the sum of the sizes of the parts before it;
\* a Main part passes only if its raw bytes equal remote[i .. i+len(raw)], and a Main
\* part that differs ends the walk with BytecodeMismatch whose part is
\* Mismatch{expected: raw, found: remote[i .. i+len(raw)]}; a successful comparison
\* implies that every Main part equals the remote bytes at its offset.
C9_MainParts ==
    /\ \A n \in 1..Len(walked) :
           LET e == walked[n]
               part == contract.parts[e.part]
               found == Slice(remote_creation, e.at, e.at + Len(part.raw))
           IN  /\ e.at = Offset(contract.parts, e.part)
               /\ part.type = "Main" =>
                      IF part.raw = found THEN Passed(n)
                      ELSE /\ n = Len(walked)
                           /\ cmpPc = "done"
                           /\ cmpResult = BytecodeMismatch(Mismatch(part.raw, found),
                                                           Mismatch(local_raw, remote_creation))
    /\ cmpResult.kind = "Ok" =>
           \A k \in 1..Len(contract.parts) :
               contract.parts[k].type = "Main" =>
                   contract.parts[k].raw =
                       Slice(remote_creation, Offset(contract.parts, k),
                             Offset(contract.parts, k) + Len(contract.parts[k].raw))

\* the second Main part, behind a metadata part, differed from the remote bytes
C9_Witness ==
    /\ cmpPc = "done"
    /\ cmpResult.kind = "BytecodeMismatch"
    /\ Len(walked) = 3
    /\ walked[3].at > 0
    /\ cmpResult.part.expected # cmpResult.part.found

\* C10 as stated: a Metadata part is accepted only if the two bytes after the decoded
\* remote map equal the local metadata_length_raw and are the big-endian value of the
\* number of bytes the decoder consumed; any disagreement yields
\* MetadataParse("metadata length mismatch").
C10_Original ==
    \A n \in 1..Len(walked) :
        LET e == walked[n]
            part == contract.parts[e.part]
            decoded == from_cbor(SliceFrom(remote_creation, e.at))
            suffix == SubSeq(remote_creation, e.at + decoded.len + 1,
                             IF e.at + decoded.len + 2 <= Len(remote_creation)
                                 THEN e.at + decoded.len + 2 ELSE Len(remote_creation))
        IN  (part.type = "Metadata" /\ decoded.ok) =>
                IF suffix = part.metadata_length_raw /\ suffix = BE2(decoded.len)
                    THEN Passed(n) \/ cmpResult.kind = "CompilerVersionMismatch"
                    ELSE /\ cmpPc = "done"
                         /\ cmpResult = MetadataParse("metadata length mismatch")

\* an optional solc tag as the error shows it
Shown(solc) == IF solc = None THEN None ELSE Some(DisplayBytes(solc[1]))

\* the remote map examined at cursor at decodes and the two bytes after it are the
\* local length bytes
SuffixPasses(at, part) ==
    LET decoded == from_cbor(SliceFrom(remote_creation, at)) IN
    /\ decoded.ok
    /\ InRange(remote_creation, at + decoded.len, at + decoded.len + 2)
    /\ ~LengthSuffixDiffers(remote_creation, at + decoded.len, part)

\* the remote inputs that differ from the present one in the key or the value of one
\* pair, other than a solc pair, of the map of n pairs at cursor at
OtherFieldsChanged(at, n) ==
    UNION {{Replace(remote_creation, at + 2 * j + 1, b) : b \in MutBytes}
               \cup {Replace(remote_creation, at + 2 * j, b) : b \in MutBytes \ {KeySolc}} :
           j \in {k \in 1..n : remote_creation[at + 2 * k] # KeySolc}}

\* C11: for a Metadata part whose remote map decodes and whose length bytes pass, the
\* walk ends with CompilerVersionMismatch(Mismatch{expected: local solc, found: remote
\* solc}), both shown as hex strings, exactly when the local and the remote solc tags
\* differ, and otherwise the part passes; a remote input that differs only in a field
\* other than solc gets the same result for the part.
C11_SolcOnly ==
    \A n \in 1..Len(walked) :
        LET e == walked[n]
            part == contract.parts[e.part]
            decoded == from_cbor(SliceFrom(remote_creation, e.at))
        IN  (part.type = "Metadata" /\ SuffixPasses(e.at, part)) =>
                /\ IF part.metadata.solc # decoded.metadata.solc
                       THEN /\ n = Len(walked)
                            /\ cmpPc = "done"
                            /\ cmpResult = CompilerVersionMismatch(
                                   Mismatch(Shown(part.metadata.solc), Shown(decoded.metadata.solc)))
                       ELSE Passed(n)
                /\ \A other \in OtherFieldsChanged(e.at, (decoded.len - 1) \div 2) :
                       PartStep(other, local_raw, e.at, part)
                           = PartStep(remote_creation, local_raw, e.at, part)

\* local solc 0x0e against remote solc 0x0d, all other bytes equal
C11_Witness ==
    /\ cmpPc = "done"
    /\ Len(walked) = 2
    /\ SuffixPasses(walked[2].at, contract.parts[2])
    /\ Replace(remote_creation, walked[2].at + 3, 14) = local_raw
    /\ cmpResult = CompilerVersionMismatch(Mismatch(Some(DisplayBytes(<<14>>)),
                                                    Some(DisplayBytes(<<13>>))))

\* a remote map whose only pair is not a solc pair and differs from the local one in
\* its value passed
C11_OtherFieldWitness ==
    /\ cmpPc = "done"
    /\ cmpResult.kind = "Ok"
    /\ Len(contract.parts) >= 2
    /\ contract.parts[2].metadata.solc = None
    /\ remote_creation # local_raw
    /\ Replace(remote_creation, Offset(contract.parts, 2) + 3, 18) = local_raw

\* the mapping of a parse failure in section 4.2
AbstractOrLibrary(err) ==
    CASE err \in {"EmptyCreationTxInput", "EmptyDeployedBytecode"} -> AbstractContract
      [] err \in {"InvalidCreationTxInput", "InvalidDeployedBytecode"} -> LibraryMissed

\* C13 as stated: a missing ABI is reported as InternalError("missing abi") before any
\* parsing; with the ABI found, a parse failure of the unmodified or of the modified
\* contract becomes AbstractContract (empty creation input or deployed bytecode) or
\* LibraryMissed (invalid creation input or deployed bytecode).
C13_Original ==
    cmpPc = "done" =>
        IF contract.abi = None THEN cmpResult = InternalError("missing abi")
        ELSE IF contract.init # "Ok" THEN cmpResult = AbstractOrLibrary(contract.init)
        ELSE contract_modified.init # "Ok" =>
                 cmpResult = AbstractOrLibrary(contract_modified.init)

\* C13 amended: a missing ABI is reported as InternalError("missing abi") before any
\* parsing; with the ABI found, a parse failure of the unmodified contract becomes
\* AbstractContract or LibraryMissed as in section 4.2; when the unmodified contract
\* parses, a parse failure of the modified contract becomes
\* InternalError("modified contract: <the parse error>"), whichever error it is.
C13_ParseMapping ==
    cmpPc = "done" =>
        IF contract.abi = None THEN cmpResult = InternalError("missing abi")
        ELSE IF contract.init # "Ok" THEN cmpResult = AbstractOrLibrary(contract.init)
        ELSE contract_modified.init # "Ok" =>
                 cmpResult = InternalError(<<"modified contract: ", contract_modified.init>>)

\* the unmodified contract parsed and the modified one has an unlinked library
C13_Witness ==
    /\ cmpPc = "done"
    /\ contract.abi # None
    /\ contract.init = "Ok"
    /\ contract_modified.init = "InvalidCreationTxInput"
    /\ cmpResult.kind = "InternalError"
    /\ walked = <<>>

\* C14 as stated: compare_bytecode_parts is entered only with len(remote_raw) >=
\* len(local_raw), and then every slice the walk takes of the remote input (the bytes of
\* a Main part, the rest of the input for the decoder, the two bytes after the decoded
\* remote map) lies within the input: the walk ends with a result value, never with an
\* out-of-range panic.
C14_Original ==
    /\ cmpPc \in {"enter", "walk"} => Len(remote_creation) >= Len(local_raw)
    /\ cmpResult.kind # "Panic"
    /\ \A n \in 1..Len(walked) :
           LET e == walked[n]
               part == contract.parts[e.part]
               decoded == from_cbor(SliceFrom(remote_creation, e.at))
           IN  IF part.type = "Main"
                   THEN InRange(remote_creation, e.at, e.at + Len(part.raw))
                   ELSE /\ InRange(remote_creation, e.at, Len(remote_creation))
                        /\ decoded.ok => InRange(remote_creation, e.at + decoded.len,
                                                 e.at + decoded.len + 2)

\* what holds of the code: the assert of compare_bytecode_parts never fails and the
\* slices of the Main arm and of the decoder's input are within the remote input
MainSlicesInRange ==
    /\ cmpPc \in {"enter", "walk"} => Len(remote_creation) >= Len(local_raw)
    /\ cmpResult.kind = "Panic" => cmpResult.msg = "range end index out of range"
    /\ \A n \in 1..Len(walked) :
           LET e == walked[n]
               part == contract.parts[e.part]
           IN  IF part.type = "Main"
                   THEN InRange(remote_creation, e.at, e.at + Len(part.raw))
                   ELSE InRange(remote_creation, e.at, Len(remote_creation))

----------------------------------------------------------------------------
(* SpecVerify: Verifier::verify                                              *)
(* output.contracts is a map path -> (name -> artifact); paths and names are *)
(* numbers that stand for strings in their order. Both loops iterate a       *)
(* BTreeMap, in ascending key order.                                         *)

Names == {1, 2}

RECURSIVE Ascending(_)
\* the keys of a map in iteration order
Ascending(S) ==
    IF S = {} THEN <<>>
    ELSE LET m == CHOOSE x \in S : \A y \in S : x <= y IN <<m>> \o Ascending(S \ {m})

\* the remote creation input of the verifier of SpecVerify
VerifyRemote == <<FirstOpcode, MapHeader, 0, 1, MapHeader + 1, 0, 1>>

AbiNoConstructor == Some([constructor |-> None])

\* an artifact whose creation code is the remote input
Good == Artifact(AbiNoConstructor, "Ok",
                 <<Main(<<FirstOpcode>>), Metadata(<<MapHeader>>), Main(<<MapHeader + 1, 0, 1>>)>>)
\* an artifact of another contract
Other == Artifact(AbiNoConstructor, "Ok", <<Main(<<FirstOpcode + 1>>)>>)
\* an artifact whose metadata part starts where the remote input holds a longer map
Crafted == Artifact(AbiNoConstructor, "Ok",
                    <<Main(<<FirstOpcode, MapHeader, 0, 1>>), Metadata(<<MapHeader>>)>>)

\* a contract of output: its artifact and whether output_modified has the key
Entries == {[artifact |-> a, modified |-> TRUE] : a \in {Good, Other, Crafted}}
           \cup {[artifact |-> Other, modified |-> FALSE]}

\* the contracts of one file: any names, any entries
ContractMaps == UNION {[ns -> Entries] : ns \in SUBSET Names}

VerificationError(file_path, contract_name, kind) ==
    [file_path |-> file_path, contract_name |-> contract_name, kind |-> kind]

NotFoundInModified(file_path, contract_name) ==
    VerificationError(file_path, contract_name,
                      InternalError("not found in modified compiler output"))

InitVerify ==
    /\ \E ps \in SUBSET (1..MaxPaths) : output \in [ps -> ContractMaps]
    /\ \E ps \in SUBSET (1..MaxPaths) :
           output_modified = [p \in ps |->
               IF p \in DOMAIN output
                   THEN {n \in DOMAIN output[p] : output[p][n].modified}
                   ELSE {}]
    /\ remote_creation = VerifyRemote
    /\ verifyPc = "path"
    /\ pathIdx = 1
    /\ nameIdx = 0
    /\ compared = <<>>
    /\ errors = <<>>
    /\ verifyResult = [kind |-> "Pending"]
    /\ contract = <<>> /\ contract_modified = <<>> /\ cmpPc = "idle" /\ i = 0
    /\ partIdx = 0 /\ walked = <<>> /\ cmpResult = [kind |-> "Pending"]
    /\ sweepIdle

paths == Ascending(DOMAIN output)
path == paths[pathIdx]
names == Ascending(DOMAIN output[path])
name == names[nameIdx]

\* self.compare(&contract, contract_modified) for the candidate the loops are at
CompareCandidate(p, n) ==
    compare(remote_creation, output[p][n].artifact, output[p][n].artifact)

\* `for (path, contracts) in output.contracts`: the path is not in output_modified
PathMissing ==
    /\ verifyPc = "path"
    /\ pathIdx <= Len(paths)
    /\ path \notin DOMAIN output_modified
    /\ errors' = Append(errors, NotFoundInModified(path, None))
    /\ pathIdx' = pathIdx + 1
    /\ UNCHANGED <<output, output_modified, verifyPc, nameIdx, compared, verifyResult>>
    /\ UNCHANGED <<compareVars, sweepVars>>

\* the path is in output_modified: enter the loop over its contracts
PathFound ==
    /\ verifyPc = "path"
    /\ pathIdx <= Len(paths)
    /\ path \in DOMAIN output_modified
    /\ verifyPc' = "contract"
    /\ nameIdx' = 1
    /\ UNCHANGED <<output, output_modified, pathIdx, compared, errors, verifyResult>>
    /\ UNCHANGED <<compareVars, sweepVars>>

\* `for (name, contract) in contracts`: the name is not in contracts_modified
ContractMissing ==
    /\ verifyPc = "contract"
    /\ nameIdx <= Len(names)
    /\ name \notin output_modified[path]
    /\ errors' = Append(errors, NotFoundInModified(path, Some(name)))
    /\ nameIdx' = nameIdx + 1
    /\ UNCHANGED <<output, output_modified, verifyPc, pathIdx, compared, verifyResult>>
    /\ UNCHANGED <<compareVars, sweepVars>>

\* mutant: a match is recorded but the loop goes on to the next candidate
AfterCompareKeepsGoing(r) ==
    IF r.kind = "Ok"
        THEN /\ verifyResult' = [kind |-> "Success", file_path |-> path, contract_name |-> name,
                                 abi |-> r.abi, constructor_args |-> r.constructor_args]
             /\ nameIdx' = nameIdx + 1
             /\ UNCHANGED <<errors, verifyPc>>
    ELSE IF r.kind = "Panic"
        THEN /\ verifyResult' = r
             /\ verifyPc' = "done"
             /\ UNCHANGED <<errors, nameIdx>>
    ELSE /\ errors' = Append(errors, VerificationError(path, Some(name), r))
         /\ nameIdx' = nameIdx + 1
         /\ UNCHANGED <<verifyResult, verifyPc>>

\* what the loop does with the value compare returned
AfterCompare(r) ==
    IF r.kind = "Ok"
        THEN /\ verifyResult' = [kind |-> "Success", file_path |-> path, contract_name |-> name,
                                 abi |-> r.abi, constructor_args |-> r.constructor_args]
             /\ verifyPc' = "done"
             /\ UNCHANGED <<errors, nameIdx>>
    ELSE IF r.kind = "Panic"
        THEN /\ verifyResult' = r
             /\ verifyPc' = "done"
             /\ UNCHANGED <<errors, nameIdx>>
    ELSE /\ errors' = Append(errors, VerificationError(path, Some(name), r))
         /\ nameIdx' = nameIdx + 1
         /\ UNCHANGED <<verifyResult, verifyPc>>

\* the candidate is in both outputs: compare, then return or record the error
CompareStep(kinds) ==
    /\ verifyPc = "contract"
    /\ nameIdx <= Len(names)
    /\ name \in output_modified[path]
    /\ LET r == CompareCandidate(path, name) IN
           /\ (r.kind \in {"Ok", "Panic"}) = (r.kind \in kinds)
           /\ AfterCompare(r)
    /\ compared' = Append(compared, <<path, name>>)
    /\ UNCHANGED <<output, output_modified, pathIdx>>
    /\ UNCHANGED <<compareVars, sweepVars>>

CompareOk == CompareStep({"Ok"})
CompareErr == CompareStep({})
ComparePanics == CompareStep({"Panic"})

\* the inner loop is over
ContractsDone ==
    /\ verifyPc = "contract"
    /\ nameIdx > Len(names)
    /\ verifyPc' = "path"
    /\ pathIdx' = pathIdx + 1
    /\ UNCHANGED <<output, output_modified, nameIdx, compared, errors, verifyResult>>
    /\ UNCHANGED <<compareVars, sweepVars>>

\* the outer loop is over: Err(errors)
Exhausted ==
    /\ verifyPc = "path"
    /\ pathIdx > Len(paths)
    /\ verifyResult' = [kind |-> "Err", errors |-> errors]
    /\ verifyPc' = "done"
    /\ UNCHANGED <<output, output_modified, pathIdx, nameIdx, compared, errors>>
    /\ UNCHANGED <<compareVars, sweepVars>>

NextVerify ==
    \/ PathMissing
    \/ PathFound
    \/ ContractMissing
    \/ CompareOk
    \/ CompareErr
    \/ ComparePanics
    \/ ContractsDone
    \/ Exhausted

SpecVerify == InitVerify /\ [][NextVerify]_vars

----------------------------------------------------------------------------
(* Properties of Verifier::verify (SpecVerify)                               *)

RECURSIVE Flatten(_)
Flatten(ss) == IF ss = <<>> THEN <<>> ELSE Head(ss) \o Flatten(Tail(ss))

\* the (file_path, contract_name) candidates of output, in iteration order
Candidates ==
    Flatten([k \in 1..Len(paths) |->
                 LET ns == Ascending(DOMAIN output[paths[k]])
                 IN  [j \in 1..Len(ns) |-> <<paths[k], ns[j]>>]])

InModified(c) == c[1] \in DOMAIN output_modified /\ c[2] \in output_modified[c[1]]

Matches(c) == CompareCandidate(c[1], c[2]).kind = "Ok"

\* the candidates before position k that verify hands to compare
ComparedBefore(k) == SelectSeq(SubSeq(Candidates, 1, k - 1), InModified)

\* C1: verify hands the candidates of output to compare in iteration order and
\* returns VerificationSuccess for the first one whose compare succeeds: the
\* file_path and contract_name returned are those of that candidate, no candidate
\* before it matched, none after it is compared, and an error list is returned only
\* when no candidate matched.
C1_FirstMatchWins ==
    /\ \E k \in 1..(Len(Candidates) + 1) : compared = ComparedBefore(k)
    /\ \A k \in 1..(Len(compared) - 1) : ~Matches(compared[k])
    /\ verifyResult.kind = "Success" =>
           /\ compared # <<>>
           /\ <<verifyResult.file_path, verifyResult.contract_name>> = compared[Len(compared)]
           /\ Matches(compared[Len(compared)])
    /\ (compared # <<>> /\ Matches(compared[Len(compared)])) =>
           /\ verifyPc = "done"
           /\ verifyResult.kind = "Success"
    /\ verifyResult.kind = "Err" =>
           \A k \in 1..Len(Candidates) : InModified(Candidates[k]) => ~Matches(Candidates[k])

\* verify returned the second candidate it compared although a later one matches too
C1_Witness ==
    /\ verifyResult.kind = "Success"
    /\ Len(compared) = 2
    /\ \E k \in 1..Len(Candidates) :
           /\ Candidates[k] = compared[2]
           /\ \E j \in (k + 1)..Len(Candidates) :
                  InModified(Candidates[j]) /\ Matches(Candidates[j])

\* the candidates the loops have dealt with: those before the present position
Handled ==
    {c \in {Candidates[k] : k \in 1..Len(Candidates)} :
         \E a \in 1..Len(paths) :
             /\ paths[a] = c[1]
             /\ \/ a < pathIdx
                \/ /\ a = pathIdx
                   /\ verifyPc = "contract"
                   /\ \E b \in 1..Len(names) : names[b] = c[2] /\ b < nameIdx}

\* the entries of errors that are equal to e
Recorded(e) == {j \in 1..Len(errors) : errors[j] = e}

\* the key an error is tagged with: its file path and its contract name, 0 for none
ErrorKey(e) == <<e.file_path, IF e.contract_name = None THEN 0 ELSE e.contract_name[1]>>

KeyLess(a, b) == a[1] < b[1] \/ (a[1] = b[1] /\ a[2] < b[2])

\* a candidate absent from output_modified has its error: the one of its file when
\* the file is absent, its own when only the name is absent
NotFoundRecorded(c) ==
    IF c[1] \notin DOMAIN output_modified
        THEN Cardinality(Recorded(NotFoundInModified(c[1], None))) = 1
        ELSE Cardinality(Recorded(NotFoundInModified(c[1], Some(c[2])))) = 1

\* a candidate whose compare failed has one error tagged with its path and name
CompareErrorRecorded(c) ==
    Cardinality(Recorded(VerificationError(c[1], Some(c[2]), CompareCandidate(c[1], c[2])))) = 1

\* C12 as stated: failures of single candidates are collected and never end the
\* loop: every handled candidate absent from output_modified has an
\* InternalError("not found in modified compiler output") recorded, every compare that
\* did not succeed added one error tagged with its file path and contract name, verify
\* ends with a success or an error list, a candidate that matches is returned whatever
\* errors came before it, and the error list returned is the one accumulated, in
\* iteration order.
C12_Original ==
    /\ \A c \in Handled : ~InModified(c) => NotFoundRecorded(c)
    /\ \A k \in 1..Len(compared) : ~Matches(compared[k]) => CompareErrorRecorded(compared[k])
    /\ verifyPc = "done" =>
           /\ verifyResult.kind \in {"Success", "Err"}
           /\ (\E k \in 1..Len(Candidates) : InModified(Candidates[k]) /\ Matches(Candidates[k]))
                  => verifyResult.kind = "Success"
    /\ verifyResult.kind = "Err" =>
           /\ verifyResult.errors = errors
           /\ \A k \in 1..Len(Candidates) :
                  IF InModified(Candidates[k]) THEN CompareErrorRecorded(Candidates[k])
                  ELSE NotFoundRecorded(Candidates[k])
    /\ \A j \in 1..(Len(errors) - 1) : KeyLess(ErrorKey(errors[j]), ErrorKey(errors[j + 1]))

\* what holds of the code: the same, for the runs in which no compare panics
CollectedUntilPanic ==
    /\ \A c \in Handled : ~InModified(c) => NotFoundRecorded(c)
    /\ \A k \in 1..Len(compared) :
           CompareCandidate(compared[k][1], compared[k][2]).kind \notin {"Ok", "Panic"}
               => CompareErrorRecorded(compared[k])
    /\ (verifyPc = "done" /\ verifyResult.kind # "Panic") =>
           /\ verifyResult.kind \in {"Success", "Err"}
           /\ (\E k \in 1..Len(Candidates) : InModified(Candidates[k]) /\ Matches(Candidates[k]))
                  => verifyResult.kind = "Success"
    /\ verifyResult.kind = "Err" =>
           /\ verifyResult.errors = errors
           /\ \A k \in 1..Len(Candidates) :
                  IF InModified(Candidates[k]) THEN CompareErrorRecorded(Candidates[k])
                  ELSE NotFoundRecorded(Candidates[k])
    /\ \A j \in 1..(Len(errors) - 1) : KeyLess(ErrorKey(errors[j]), ErrorKey(errors[j + 1]))

\* a candidate succeeded after an absent file and a failed compare were recorded
CollectedThenSuccess ==
    /\ verifyResult.kind = "Success"
    /\ Len(errors) >= 2
    /\ errors[1].contract_name = None
    /\ errors[2].kind.kind = "BytecodeMismatch"

----------------------------------------------------------------------------
(* SpecSweep: solidity::multi_part::verify                                   *)

\* compiler versions of requests: major, minor, patch
Versions == {<<0, 4, 26>>, <<0, 5, 17>>, <<0, 6, 0>>, <<0, 8, 14>>, <<1, 0, 0>>}

VersionLess(a, b) ==
    \/ a[1] < b[1]
    \/ a[1] = b[1] /\ a[2] < b[2]
    \/ a[1] = b[1] /\ a[2] = b[2] /\ a[3] < b[3]

\* mutant: the requirement reads "<=0.6.0"
MatchesReqInclusive(version) == ~VersionLess(<<0, 6, 0>>, version)

\* VersionReq::parse("<0.6.0").unwrap().matches(version)
MatchesReq(version) == VersionLess(version, <<0, 6, 0>>)

BYTECODE_HASHES == <<"Ipfs", "None", "Bzzr1">>

\* Vec<Option<SettingsMetadata>>: no metadata settings at all for the old compilers,
\* otherwise one SettingsMetadata per bytecode hash
settings_metadata(compiler_version) ==
    IF MatchesReq(compiler_version) THEN <<None>>
    ELSE [k \in 1..Len(BYTECODE_HASHES) |-> Some(BYTECODE_HASHES[k])]

\* Verifier::new: Bytecode::new rejects an empty creation input or deployed bytecode
Verifier_new(creation_tx_input, deployed_bytecode) ==
    IF creation_tx_input = <<>> THEN [ok |-> FALSE, err |-> "EmptyCreationTxInput"]
    ELSE IF deployed_bytecode = <<>> THEN [ok |-> FALSE, err |-> "EmptyDeployedBytecode"]
    ELSE [ok |-> TRUE, remote_bytecode |-> [creation_tx_input |-> creation_tx_input,
                                            deployed_bytecode |-> deployed_bytecode]]

\* ContractVerifier::new(compilers, &compiler_version, creation_bytecode, deployed_bytecode)
ContractVerifier_new(req) == Verifier_new(req.creation_bytecode, req.deployed_bytecode)

NoMatchingContracts == [kind |-> "Err", error |-> "NoMatchingContracts"]
Cancelled == [kind |-> "Err", error |-> "Cancelled"]

\* what one compile + verify round can return when it is not cancelled
RoundResults == {[kind |-> "Success"], NoMatchingContracts,
                 [kind |-> "Err", error |-> "Compilation"],
                 [kind |-> "Err", error |-> "Internal"]}

\* mutant: every error makes the sweep try the next candidate
TryNextOnAnyError(result) == result.kind = "Err"

\* mutant: a cancelled round is retried like one without a matching contract
TryNextOnCancelled(result) == result \in {NoMatchingContracts, Cancelled}

\* `if let Err(Error::NoMatchingContracts) = result { continue; }`
TryNext(result) == result = NoMatchingContracts

InitSweep ==
    /\ request \in [compiler_version : Versions,
                    creation_bytecode : {<<>>, <<FirstOpcode>>},
                    deployed_bytecode : {<<>>, <<FirstOpcode>>}]
    /\ sweepPc = "start"
    /\ metadataIdx = 0
    /\ attempts = <<>>
    /\ cancelRequested = FALSE
    /\ cancelledAt = -1
    /\ rounds = <<>>
    /\ sweepResult = [kind |-> "Pending"]
    /\ compareIdle
    /\ verifyIdle

settings == settings_metadata(request.compiler_version)

\* ContractVerifier::new(..)? fails: the sweep returns its error
NewFails ==
    /\ sweepPc = "start"
    /\ ~ContractVerifier_new(request).ok
    /\ sweepResult' = [kind |-> "Err", error |-> "Initialization",
                       cause |-> ContractVerifier_new(request).err]
    /\ sweepPc' = "done"
    /\ UNCHANGED <<request, metadataIdx, attempts, cancelRequested, cancelledAt, rounds>>
    /\ UNCHANGED <<compareVars, verifyVars>>

\* the verifier is built, the compiler input made: enter the loop
NewSucceeds ==
    /\ sweepPc = "start"
    /\ ContractVerifier_new(request).ok
    /\ sweepPc' = "loop"
    /\ metadataIdx' = 1
    /\ UNCHANGED <<request, attempts, cancelRequested, cancelledAt, rounds, sweepResult>>
    /\ UNCHANGED <<compareVars, verifyVars>>

\* compiler_input.settings.metadata = metadata; verifier.verify(&compiler_input) is awaited
BeginRound ==
    /\ sweepPc = "loop"
    /\ metadataIdx <= Len(settings)
    /\ attempts' = Append(attempts, settings[metadataIdx])
    /\ sweepPc' = "pending"
    /\ UNCHANGED <<request, metadataIdx, cancelRequested, cancelledAt, rounds, sweepResult>>
    /\ UNCHANGED <<compareVars, verifyVars>>

\* the awaited round returned `result`
EndRound(result) ==
    /\ rounds' = Append(rounds, result)
    /\ IF TryNext(result)
           THEN /\ metadataIdx' = metadataIdx + 1
                /\ sweepPc' = "loop"
                /\ UNCHANGED sweepResult
           ELSE /\ sweepResult' = result
                /\ sweepPc' = "done"
                /\ UNCHANGED metadataIdx
    /\ UNCHANGED <<request, attempts, cancelRequested, cancelledAt>>
    /\ UNCHANGED <<compareVars, verifyVars>>

\* the round found no matching contract
RoundNoMatch ==
    /\ sweepPc = "pending"
    /\ ~cancelRequested
    /\ EndRound(NoMatchingContracts)

\* the round succeeded or failed with another error
RoundReturns ==
    /\ sweepPc = "pending"
    /\ ~cancelRequested
    /\ \E result \in RoundResults \ {NoMatchingContracts} : EndRound(result)

\* the enclosing service signals cancellation
Cancel ==
    /\ sweepPc \in {"start", "loop", "pending"}
    /\ ~cancelRequested
    /\ cancelRequested' = TRUE
    /\ cancelledAt' = IF sweepPc = "pending" THEN Len(attempts) ELSE -1
    /\ UNCHANGED <<request, sweepPc, metadataIdx, attempts, rounds, sweepResult>>
    /\ UNCHANGED <<compareVars, verifyVars>>

\* the pending compile is aborted and the round returns the cancellation error
RoundCancelled ==
    /\ sweepPc = "pending"
    /\ cancelRequested
    /\ EndRound(Cancelled)

\* the loop is over: Err(Error::NoMatchingContracts)
SweepExhausted ==
    /\ sweepPc = "loop"
    /\ metadataIdx > Len(settings)
    /\ sweepResult' = NoMatchingContracts
    /\ sweepPc' = "done"
    /\ UNCHANGED <<request, metadataIdx, attempts, cancelRequested, cancelledAt, rounds>>
    /\ UNCHANGED <<compareVars, verifyVars>>

NextSweep ==
    \/ NewFails
    \/ NewSucceeds
    \/ BeginRound
    \/ RoundNoMatch
    \/ RoundReturns
    \/ Cancel
    \/ RoundCancelled
    \/ SweepExhausted

SpecSweep == InitSweep /\ [][NextSweep]_vars

----------------------------------------------------------------------------
(* Properties of the sweep (SpecSweep)                                       *)

\* C3: the sweep runs its rounds one at a time in list order; after a round that
\* returned NoMatchingContracts it goes on to the next candidate, a round that returned
\* a success or another error ends the sweep with that result and no later candidate
\* is attempted, and when every candidate returned NoMatchingContracts the sweep
\* returns NoMatchingContracts.
C3_SweepRounds ==
    /\ Len(attempts) \in {Len(rounds), Len(rounds) + 1}
    /\ Len(attempts) = Len(rounds) + 1 <=> sweepPc = "pending"
    /\ attempts = SubSeq(settings, 1, Len(attempts))
    /\ \A k \in 1..Len(rounds) :
           IF rounds[k] = NoMatchingContracts
               THEN /\ (k = Len(rounds) /\ k < Len(settings)) => sweepPc \in {"loop", "pending"}
                    /\ (k = Len(settings) /\ sweepPc = "done") =>
                           sweepResult = NoMatchingContracts
               ELSE /\ k = Len(rounds)
                    /\ sweepPc = "done"
                    /\ sweepResult = rounds[k]
    /\ (sweepPc = "done" /\ sweepResult = NoMatchingContracts) =>
           /\ Len(rounds) = Len(settings)
           /\ \A k \in 1..Len(rounds) : rounds[k] = NoMatchingContracts

\* the second of three candidates succeeded and the third was never attempted
C3_Witness ==
    /\ sweepPc = "done"
    /\ Len(settings) = 3
    /\ rounds = <<NoMatchingContracts, [kind |-> "Success"]>>
    /\ Len(attempts) = 2
    /\ sweepResult.kind = "Success"

\* the version is below 0.6.0
Older(v) == v[1] = 0 /\ v[2] <= 5

\* C4: once the sweep's loop runs (the verifier was constructed), a compiler version
\* below 0.6.0 gets exactly one verification attempt; every other version gets at most
\* three, and its k-th attempt uses the k-th of the settings Ipfs, None, Bzzr1.
C4_SweepAttempts ==
    IF Older(request.compiler_version)
        THEN /\ Len(attempts) <= 1
             /\ (/\ sweepPc = "done"
                 /\ request.creation_bytecode # <<>>
                 /\ request.deployed_bytecode # <<>>) => Len(attempts) = 1
        ELSE /\ Len(attempts) <= 3
             /\ \A k \in 1..Len(attempts) : attempts[k] = Some(<<"Ipfs", "None", "Bzzr1">>[k])

\* a sweep for a 0.5 compiler ended after its single attempt
C4_Witness ==
    /\ sweepPc = "done"
    /\ request.compiler_version = <<0, 5, 17>>
    /\ Len(attempts) = 1
    /\ sweepResult = NoMatchingContracts

====
